---- MODULE Spec2Model ----
(***************************************************************************)
(* Model of the client-side request pipeline of                            *)
(* frontend/src/services/api.ts: EducationalCache (TTL cache),             *)
(* RetryStrategy, EducationalErrorHandler and EnterpriseAPIClient          *)
(* (interceptors, service methods, retrying request()).                    *)
(*                                                                         *)
(* Strings that the code inspects with String.includes are modelled as     *)
(* sequences of one-character strings, so that substring tests are         *)
(* computed as the code computes them.  Time is Date.now() in              *)
(* milliseconds; the clock advances in steps of one cleanup interval.      *)
(***************************************************************************)
EXTENDS Integers, Sequences, FiniteSets, TLC

VARIABLES
  now,          \* Date.now(), in ms
  cleanupDue,   \* the setInterval(cleanup, 60000) callback is pending
  cache,        \* EducationalCache.cache : Map key -> {data, expires, metadata}
  hist,         \* history: per key, the most recent set and what happened to it since
  lastOp,       \* the last direct cache operation performed and what it returned
  probe,        \* inputs and result of the last pure-function evaluation
  storage,      \* window.localStorage, the keys the pipeline reads or writes
  session,      \* window.sessionStorage, the keys AuthService writes
  defaultAuth,  \* axiosInstance.defaults.headers.common['Authorization']
  location,     \* window.location.href
  reqs,         \* the logical requests: position, arguments, attempts, result
  lastEvent,    \* the last step of the pipeline: its kind, request and injected fault
  populated,    \* per cache key: when a network-served read last returned a body
  requestMetrics,   \* EnterpriseAPIClient.requestMetrics
  metricsObserved,  \* whether the specification observes requestMetrics (never changes)
  gamification,     \* GamificationService: eventQueue, isProcessing and its callers
  search            \* SearchService: analyticsQueue and the flushes in flight

cacheVars == <<now, cleanupDue, cache, hist, lastOp>>
pipeVars ==
  <<storage, session, defaultAuth, location, reqs, lastEvent, populated,
    requestMetrics, metricsObserved>>
serviceVars == <<gamification, search>>
vars == <<cacheVars, probe, pipeVars, serviceVars>>

(***************************************************************************)
(* Bounds of the model                                                     *)
(***************************************************************************)
MaxTicks == 6          \* cache specification: clock ticks explored
StatusLo == 200        \* pure-function specification: HTTP statuses explored
StatusHi == 600
MaxProbeAttempt == 4   \* pure-function specification: attempt numbers explored
MaxMetricRequests == 101   \* metrics specification: attempts started
MaxTimedAttempts == 3      \* timed-metrics specification: attempts started
MaxTimedTicks == 2         \* timed-metrics specification: clock ticks explored
MaxAwards == 4             \* gamification: awardPoints calls made
MaxSearchEvents == 11      \* search analytics: events tracked
MaxFlushes == 2            \* search analytics: flushes in flight at once
MaxMetricFailures == 1     \* metrics specification: failures occur among the first attempts
MaxDelayAttempt == 19  \* pure-function specification: attempt numbers of getDelay
MaxPathTicks == 16     \* cached-read specification: clock ticks explored
MaxTtlTicks == 2       \* TTL specification: instants at which set is called

(***************************************************************************)
(* Strings                                                                 *)
(***************************************************************************)
S_learning == <<"l","e","a","r","n","i","n","g">>
S_module == <<"m","o","d","u","l","e">>
S_user == <<"u","s","e","r">>
S_profile == <<"p","r","o","f","i","l","e">>
S_assessment == <<"a","s","s","e","s","s","m","e","n","t">>
S_quiz == <<"q","u","i","z">>
S_achievement == <<"a","c","h","i","e","v","e","m","e","n","t">>
S_gamification == <<"g","a","m","i","f","i","c","a","t","i","o","n">>
S_search == <<"s","e","a","r","c","h">>
S_content == <<"c","o","n","t","e","n","t">>
S_auth == <<"a","u","t","h">>
S_login == <<"l","o","g","i","n">>

\* String.prototype.includes
Includes(s, p) ==
  \E i \in 1..(Len(s) - Len(p) + 1) : SubSeq(s, i, i + Len(p) - 1) = p

Null == "null"

(***************************************************************************)
(* EducationalCache                                                        *)
(***************************************************************************)
DEFAULT_TTL == 5 * 60 * 1000
CLEANUP_INTERVAL == 60000

getOptimalTTLUserFirst(key) ==
  IF Includes(key, S_user) \/ Includes(key, S_profile) THEN 2 * 60 * 1000
  ELSE IF Includes(key, S_assessment) \/ Includes(key, S_quiz) THEN 10 * 60 * 1000
  ELSE DEFAULT_TTL

\* EducationalCache.getOptimalTTL
getOptimalTTL(key) ==
  IF Includes(key, S_learning) \/ Includes(key, S_module) THEN 15 * 60 * 1000
  ELSE IF Includes(key, S_user) \/ Includes(key, S_profile) THEN 2 * 60 * 1000
  ELSE IF Includes(key, S_assessment) \/ Includes(key, S_quiz) THEN 10 * 60 * 1000
  ELSE DEFAULT_TTL

\* EducationalCache.set: customTTL 0 stands for an omitted (or zero) argument,
\* both falsy in `customTTL || this.getOptimalTTL(key, data)`
CacheSet(c, key, data, metadata, customTTL, t) ==
  LET ttl == IF customTTL # 0 THEN customTTL ELSE getOptimalTTL(key)
      entry == [data |-> data, expires |-> t + ttl, metadata |-> metadata]
  IN [k \in (DOMAIN c) \cup {key} |-> IF k = key THEN entry ELSE c[k]]

\* Map.delete for a set of keys
CacheDelete(c, ks) == [k \in (DOMAIN c) \ ks |-> c[k]]

GetExpiredMut(entry, t) == t >= entry.expires

\* the expiry test of EducationalCache.get: Date.now() > cached.expires
GetExpired(entry, t) == t > entry.expires

\* EducationalCache.get: the value returned
CacheGetResult(c, key, t) ==
  IF key \notin DOMAIN c THEN Null
  ELSE IF GetExpired(c[key], t) THEN Null
  ELSE c[key].data

\* EducationalCache.get: the map after the call (lazy eviction)
CacheGetCache(c, key, t) ==
  IF key \in DOMAIN c /\ GetExpired(c[key], t) THEN CacheDelete(c, {key}) ELSE c

CacheInvalidateAll(c, pattern) == CacheDelete(c, DOMAIN c)

\* EducationalCache.invalidate: pattern <<>> stands for an omitted (or empty)
\* pattern, both falsy in `if (pattern)`
CacheInvalidate(c, pattern) ==
  IF pattern # <<>>
  THEN CacheDelete(c, {k \in DOMAIN c : Includes(k, pattern)})
  ELSE CacheDelete(c, DOMAIN c)

CacheCleanupNewest(c, t) ==
  CacheDelete(c, {k \in DOMAIN c : t > c[k].expires /\ \A j \in DOMAIN c : c[j].expires <= c[k].expires})

\* EducationalCache.cleanup
CacheCleanup(c, t) == CacheDelete(c, {k \in DOMAIN c : t > c[k].expires})

(***************************************************************************)
(* CONFIG                                                                  *)
(***************************************************************************)
RETRY_ATTEMPTS == 3
RETRY_DELAY == 1000
MAX_BACKOFF == 30000
TIMEOUT == 30000
EXPORT_HISTORY == 100
ENABLE_AI_OPTIMIZATION == TRUE

(***************************************************************************)
(* Failures of the transport (AxiosError).  A failure with an HTTP         *)
(* response carries its status; axios gives it the code ERR_BAD_REQUEST    *)
(* for 4xx and ERR_BAD_RESPONSE for 5xx.  A failure without a response     *)
(* carries one of the codes of the adapter, or none.                       *)
(***************************************************************************)
NetCodes ==
  {"ECONNRESET", "ETIMEDOUT", "ECONNREFUSED", "ECONNABORTED", "ERR_NETWORK", "undefined"}

HttpError(status) ==
  [hasResponse |-> TRUE, status |-> status, name |-> "AxiosError",
   code |-> IF status \in 400..499 THEN "ERR_BAD_REQUEST"
            ELSE IF status \in 500..599 THEN "ERR_BAD_RESPONSE" ELSE "undefined"]

NetError(code) ==
  [hasResponse |-> FALSE, status |-> 0, name |-> "AxiosError", code |-> code]

(***************************************************************************)
(* RetryStrategy                                                           *)
(***************************************************************************)
shouldRetryNo429(error, attempt) ==
  IF attempt >= RETRY_ATTEMPTS THEN FALSE
  ELSE IF error.hasResponse /\ error.status >= 400 /\ error.status < 500 THEN FALSE
  ELSE IF error.hasResponse /\ error.status >= 500 THEN TRUE
  ELSE error.code \in {"ECONNRESET", "ETIMEDOUT", "ECONNREFUSED"}

shouldRetryAnyStatus(error, attempt) ==
  IF attempt >= RETRY_ATTEMPTS THEN FALSE
  ELSE IF error.hasResponse THEN TRUE
  ELSE error.code \in {"ECONNRESET", "ETIMEDOUT", "ECONNREFUSED"}

\* RetryStrategy.shouldRetry
shouldRetry(error, attempt) ==
  IF attempt >= RETRY_ATTEMPTS THEN FALSE
  ELSE IF error.hasResponse /\ error.status >= 400 /\ error.status < 500
                            /\ error.status # 429 THEN FALSE
  ELSE IF error.hasResponse /\ error.status >= 500 THEN TRUE
  ELSE IF error.hasResponse /\ error.status = 429 THEN TRUE
  ELSE error.code \in {"ECONNRESET", "ETIMEDOUT", "ECONNREFUSED"}

\* 2^n (Math.pow(2, attempt))
RECURSIVE Pow2(_)
Pow2(n) == IF n <= 0 THEN 1 ELSE 2 * Pow2(n - 1)

calculateBackoffLinear(attempt) ==
  IF RETRY_DELAY * (attempt + 1) < MAX_BACKOFF THEN RETRY_DELAY * (attempt + 1)
  ELSE MAX_BACKOFF

\* RetryStrategy.calculateBackoff
calculateBackoff(attempt) ==
  IF RETRY_DELAY * Pow2(attempt) < MAX_BACKOFF THEN RETRY_DELAY * Pow2(attempt)
  ELSE MAX_BACKOFF

\* RetryStrategy.getDelay
getDelay(attempt) == calculateBackoff(attempt)

(***************************************************************************)
(* Cache keys, values and patterns explored by the cache specification     *)
(***************************************************************************)
K_user_profile == <<"u","s","e","r","_","p","r","o","f","i","l","e">>
K_stats == <<"s","t","a","t","s">>

CacheKeys == {K_user_profile, K_stats}
CacheValues == {"v1", "v2"}
CustomTTLs == {0, CLEANUP_INTERVAL}
Patterns == {<<>>, S_user, S_quiz}

(***************************************************************************)
(* History of the cache, kept beside it: for every key the value and       *)
(* expiry of the most recent set, live until an invalidate call names the  *)
(* key.  Evictions do not touch the history.                               *)
(***************************************************************************)
NoHist == [live |-> FALSE, data |-> Null, expires |-> 0]

HistInvalidate(h, pattern) ==
  [k \in DOMAIN h |->
     IF pattern = <<>> \/ Includes(k, pattern) THEN NoHist ELSE h[k]]

HistSet(h, key, entry) ==
  [h EXCEPT ![key] = [live |-> TRUE, data |-> entry.data, expires |-> entry.expires]]

NoOp == [op |-> "none", key |-> <<>>, result |-> Null]

(***************************************************************************)
(* Cache operations as steps of the program                                *)
(***************************************************************************)
\* a caller runs cache.set(key, data, metadata, customTTL)
DoSet(key, data, metadata, customTTL) ==
  LET c2 == CacheSet(cache, key, data, metadata, customTTL, now)
  IN /\ cache' = c2
     /\ hist' = HistSet(hist, key, c2[key])
     /\ lastOp' = [op |-> "set", key |-> key, result |-> Null]
     /\ UNCHANGED <<now, cleanupDue, probe, pipeVars, serviceVars>>

\* a caller runs cache.get(key)
DoGet(key) ==
  LET c2 == CacheGetCache(cache, key, now)
  IN /\ cache' = c2
     /\ lastOp' = [op |-> "get", key |-> key, result |-> CacheGetResult(cache, key, now)]
     /\ UNCHANGED <<now, cleanupDue, hist, probe, pipeVars, serviceVars>>

\* a caller runs cache.invalidate(pattern)
DoInvalidate(pattern) ==
  LET c2 == CacheInvalidate(cache, pattern)
  IN /\ cache' = c2
     /\ hist' = HistInvalidate(hist, pattern)
     /\ lastOp' = [op |-> "invalidate", key |-> pattern,
                   result |-> IF c2 = cache THEN "unchanged" ELSE "removed"]
     /\ UNCHANGED <<now, cleanupDue, probe, pipeVars, serviceVars>>

\* the setInterval callback of the constructor fires
Cleanup ==
  /\ cleanupDue
  /\ cache' = CacheCleanup(cache, now)
  /\ cleanupDue' = FALSE
  /\ lastOp' = [op |-> "cleanup", key |-> <<>>,
                result |-> IF CacheCleanup(cache, now) = cache THEN "unchanged" ELSE "removed"]
  /\ UNCHANGED <<now, hist, probe, pipeVars, serviceVars>>

\* one cleanup interval of wall-clock time passes; the interval timer becomes
\* due and fires before the next interval ends
TickUpTo(maxTicks) ==
  /\ ~cleanupDue
  /\ now + CLEANUP_INTERVAL <= maxTicks * CLEANUP_INTERVAL
  /\ now' = now + CLEANUP_INTERVAL
  /\ cleanupDue' = TRUE
  /\ lastOp' = [op |-> "tick", key |-> <<>>, result |-> Null]
  /\ UNCHANGED <<cache, hist, probe, pipeVars, serviceVars>>

Tick == TickUpTo(MaxTicks)

(***************************************************************************)
(* URLs, URL markers and cache keys of the client                          *)
(***************************************************************************)
U_learning_paths == <<"/","l","e","a","r","n","i","n","g","/","p","a","t","h","s">>
U_auth_login == <<"/","a","u","t","h","/","l","o","g","i","n">>
U_auth_login_slash == <<"/","a","u","t","h","/","l","o","g","i","n","/">>
U_auth_profile == <<"/","a","u","t","h","/","p","r","o","f","i","l","e">>
U_assessment_quizzes == <<"/","a","s","s","e","s","s","m","e","n","t","/","q","u","i","z","z","e","s">>
U_search_content == <<"/","s","e","a","r","c","h","/","c","o","n","t","e","n","t">>
U_gamification_events == <<"/","g","a","m","i","f","i","c","a","t","i","o","n","/","e","v","e","n","t","s">>
U_user_gamification == <<"/","u","s","e","r","/","g","a","m","i","f","i","c","a","t","i","o","n","/">>
U_analytics_events == <<"/","a","n","a","l","y","t","i","c","s","/","e","v","e","n","t","s","/">>
U_admin_content == <<"/","a","d","m","i","n","/","c","o","n","t","e","n","t">>
U_admin_stats == <<"/","a","d","m","i","n","/","s","t","a","t","s">>
U_learning_paths_dash == <<"/","l","e","a","r","n","i","n","g","-","p","a","t","h","s">>
P_learning == <<"/","l","e","a","r","n","i","n","g","/">>
P_modules == <<"/","m","o","d","u","l","e","s","/">>
P_assessment == <<"/","a","s","s","e","s","s","m","e","n","t","/">>
P_quiz == <<"/","q","u","i","z","/">>
P_gamification == <<"/","g","a","m","i","f","i","c","a","t","i","o","n","/">>
P_achievements == <<"/","a","c","h","i","e","v","e","m","e","n","t","s","/">>
P_search == <<"/","s","e","a","r","c","h","/">>
P_content == <<"/","c","o","n","t","e","n","t","/">>
P_auth == <<"/","a","u","t","h","/">>
P_login == <<"/","l","o","g","i","n","/">>
K_learning_paths_ == <<"l","e","a","r","n","i","n","g","_","p","a","t","h","s","_">>
K_learning_paths == <<"l","e","a","r","n","i","n","g","_","p","a","t","h","s">>
K_quizzes == <<"q","u","i","z","z","e","s">>
K_modules_ == <<"m","o","d","u","l","e","s","_">>
K_learning_path_ == <<"l","e","a","r","n","i","n","g","_","p","a","t","h","_">>
K_quizzes_ == <<"q","u","i","z","z","e","s","_">>
J_ai == <<"{","\"","d","i","f","f","i","c","u","l","t","y","\"",":","\"","i","n","t","e","r","m","e","d","i","a","t","e","\"",",","\"","a","i","_","o","p","t","i","m","i","z","e","d","\"",":","t","r","u","e","}">>
K_user_learning == <<"u","s","e","r","_","l","e","a","r","n","i","n","g">>
J_empty == <<"{","}">>
J_p1 == <<"{","\"","p","\"",":","1","}">>

\* JSON.stringify(params || {}) for the params values explored:
\* undefined, the empty object {} and {p: 1}
StringifyParams(params) ==
  IF params = "undefined" THEN J_empty
  ELSE IF params = "{}" THEN J_empty
  ELSE J_p1

\* the cache key of getLearningPaths
LearningPathsKey(params) == K_learning_paths_ \o StringifyParams(params)

PathKeys == {LearningPathsKey(p) : p \in {"undefined", "{}", "{p:1}"}}

\* the cache key of getModules(learningPathId), for a one-character id
ModulesKey(id) == K_modules_ \o <<id>>

\* the URL of getModules(learningPathId)
ModulesUrl(id) == U_learning_paths \o <<"/", id, "/">> \o S_module \o <<"s">>

\* the cache key and the URL of getLearningPath(id), for a one-character id
PathKey(id) == K_learning_path_ \o <<id>>
PathUrl(id) == U_learning_paths \o <<"/", id>>

\* the params getQuizzes sends and stringifies: with a stored user the AI
\* step replaces them by { ...params, difficulty, ai_optimized: true } ("ai";
\* the recommended difficulty is the fallback 'intermediate')
QuizParams(params, st) ==
  IF ENABLE_AI_OPTIMIZATION /\ st.current_user # Null THEN "ai" ELSE params

\* the cache key of getQuizzes: `quizzes_${JSON.stringify(params)}`
QuizzesKey(params) ==
  K_quizzes_ \o (IF params = "ai" THEN J_ai ELSE StringifyParams(params))

\* the service methods that read through the cache
IsCachedRead(entry) == entry \in {"getLearningPaths", "getLearningPath", "getModules"}

\* the cache key of a service method and the metadata it stores
CallCacheKey(entry, params) ==
  IF entry = "getModules" THEN ModulesKey(params)
  ELSE IF entry = "getLearningPath" THEN PathKey(params)
  ELSE IF entry = "getQuizzes" THEN QuizzesKey(params)
  ELSE LearningPathsKey(params)

CallCacheMetadata(entry) ==
  IF entry = "getModules" THEN "modules"
  ELSE IF entry = "getLearningPath" THEN "learning_path"
  ELSE IF entry = "getQuizzes" THEN "quizzes"
  ELSE "learning_paths"

ReadKeys == PathKeys \cup {ModulesKey("7"), PathKey("7")}

(***************************************************************************)
(* EnterpriseAPIClient: error context                                      *)
(***************************************************************************)
\* EnterpriseAPIClient.determineEducationalContext
determineEducationalContext(url) ==
  IF Includes(url, P_learning) \/ Includes(url, P_modules) THEN "learning"
  ELSE IF Includes(url, P_assessment) \/ Includes(url, P_quiz) THEN "assessment"
  ELSE IF Includes(url, P_gamification) \/ Includes(url, P_achievements) THEN "gamification"
  ELSE IF Includes(url, P_search) \/ Includes(url, P_content) THEN "search"
  ELSE IF Includes(url, P_auth) \/ Includes(url, P_login) THEN "authentication"
  ELSE "learning"

ClearsSessionOnAnyAuthFailure(context, error) == context = "authentication"

\* the condition under which EducationalErrorHandler.handleError reaches the
\* body of handleAuthenticationError's if: domain authentication, status 401
ClearsSession(context, error) ==
  context = "authentication" /\ error.hasResponse /\ error.status = 401

\* EducationalErrorHandler.handleAuthenticationError on localStorage
StorageAfterError(st, context, error) ==
  IF ClearsSession(context, error)
  THEN [st EXCEPT !.token = Null, !.current_user = Null]
  ELSE st

\* EducationalErrorHandler.handleAuthenticationError on window.location
LocationAfterError(loc, context, error) ==
  IF ClearsSession(context, error) THEN "/login" ELSE loc

determineSeverityNo403(error) ==
  IF error.hasResponse
  THEN IF error.status >= 500 THEN "critical"
       ELSE IF error.status = 401 THEN "high"
       ELSE IF error.status = 429 THEN "medium"
       ELSE "low"
  ELSE "medium"

\* EnterpriseAPIClient.determineSeverity
determineSeverity(error) ==
  IF error.hasResponse
  THEN IF error.status >= 500 THEN "critical"
       ELSE IF error.status = 401 \/ error.status = 403 THEN "high"
       ELSE IF error.status = 429 THEN "medium"
       ELSE "low"
  ELSE "medium"

(***************************************************************************)
(* EnterpriseAPIClient: request interceptor                                *)
(***************************************************************************)
\* the Authorization header of an outgoing request, as the bearer token it
\* carries (Null: no header): the interceptor sets it from localStorage
\* 'token' || 'access_token'; otherwise the header of the instance defaults
\* (set by AuthService.login) stays in place
RequestAuthHeader(st, dflt) ==
  IF st.token # Null THEN st.token
  ELSE IF st.access_token # Null THEN st.access_token
  ELSE dflt

(***************************************************************************)
(* EducationalAI.optimizeAPIRequest.  The localStorage item 'user_profile' *)
(* is modelled by what JSON.parse makes of it:                             *)
(*   Null           absent: '{}' is parsed, learning_style is undefined    *)
(*   "visual"       an object whose learning_style is 'visual'             *)
(*   "kinesthetic"  an object with another learning_style                  *)
(*   "unparsable"   not JSON: JSON.parse throws a SyntaxError              *)
(*   "jsonNull"     the text 'null': reading learning_style of null throws *)
(* The request configuration is modelled by its timeout and by the         *)
(* X-AI-Optimization header; failed says the promise was rejected.         *)
(***************************************************************************)
ProfileBlobs == {Null, "visual", "kinesthetic", "unparsable", "jsonNull"}

RequestConfig(timeout) == [timeout |-> timeout, optimized |-> FALSE, failed |-> FALSE]

\* whether the body of the try block throws
OptimizerThrows(blob) == blob \in {"unparsable", "jsonNull"}

optimizeAPIRequestNoCatch(request, st) ==
  IF OptimizerThrows(st.user_profile)
  THEN [request EXCEPT !.failed = TRUE]
  ELSE [request EXCEPT !.timeout = IF st.user_profile = "visual" THEN 45000 ELSE 30000,
                       !.optimized = TRUE]

\* EducationalAI.optimizeAPIRequest
optimizeAPIRequest(request, st) ==
  IF OptimizerThrows(st.user_profile)
  THEN request
  ELSE [request EXCEPT !.timeout = IF st.user_profile = "visual" THEN 45000 ELSE 30000,
                       !.optimized = TRUE]

\* the request interceptor up to the optimization step
InterceptedConfig(timeout, st) ==
  IF ENABLE_AI_OPTIMIZATION
  THEN optimizeAPIRequest(RequestConfig(timeout), st)
  ELSE RequestConfig(timeout)

(***************************************************************************)
(* Outcomes of one network attempt, and exceptions of external calls       *)
(***************************************************************************)
OkOutcome(body) == [ok |-> TRUE, body |-> body, error |-> NetError("undefined")]
FailOutcome(error) == [ok |-> FALSE, body |-> Null, error |-> error]

\* an exception thrown by an external call made on the response path
\* (gtag, localStorage.removeItem): not an AxiosError, no response, no code
ThrownError(by) == [hasResponse |-> FALSE, status |-> 0, code |-> "undefined", name |-> by]

NoError == [hasResponse |-> FALSE, status |-> 0, code |-> "undefined", name |-> "none"]

\* Faults of the external calls made while a response is handled:
\*   "none"        every external call returns
\*   "store"       localStorage fails inside storeCustomAnalytics (try/catch)
\*   "gtag"        gtag throws inside trackEducationalEvent (no try/catch)
\*   "sideEffect"  localStorage.removeItem throws inside handleAuthenticationError
Faults == {"none", "store", "gtag", "sideEffect"}

\* what the response error interceptor rejects with
InterceptorError(error, context, fault) ==
  IF fault = "gtag" THEN ThrownError("gtag")
  ELSE IF fault = "sideEffect" /\ ClearsSession(context, error) THEN ThrownError("sideEffect")
  ELSE error

\* whether the interceptor reached and completed the per-domain side effect
SideEffectsRan(fault) == fault \in {"none", "store"}

\* what the response success interceptor resolves or rejects with
SuccessThrows(fault) == fault = "gtag"

(***************************************************************************)
(* Logical requests                                                        *)
(***************************************************************************)
Reqs == {"r1", "r2"}

\* const startTime = Date.now() of the request interceptor, kept with the
\* request in config.__metrics; tracked where requestMetrics is observed
StartTime(observed, t) == IF observed THEN t ELSE 0


IdleReq ==
  [pc |-> "idle", entry |-> "none", method |-> "none", url |-> <<>>,
   params |-> "undefined", remember |-> FALSE, configTimeout |-> TIMEOUT,
   attempt |-> 0, auth |-> Null, sent |-> RequestConfig(TIMEOUT), startTime |-> 0,
   issuedBeforeUpdate |-> FALSE, trace |-> <<>>, waits |-> 0,
   outcome |-> "none", value |-> [kind |-> "none", data |-> Null], error |-> NoError, lastError |-> NoError,
   fromCache |-> FALSE, freshAtStart |-> FALSE]

\* a call of an entry point of the client
Call(entry, method, url, params, remember) ==
  [entry |-> entry, method |-> method, url |-> url, params |-> params, remember |-> remember,
   timeout |-> TIMEOUT]

\* the same call with a timeout in the configuration the caller passes
WithTimeout(c, timeout) == [c EXCEPT !.timeout = timeout]

LoopContinuesMut(attempt) == attempt <= RETRY_ATTEMPTS

\* the loop condition of the retrying request(): attempt < CONFIG.RETRY_ATTEMPTS
LoopContinues(attempt) == attempt < RETRY_ATTEMPTS

\* the result of a read served from the cache: { success: true, data: cached }
CachedResult(cached) == [success |-> TRUE, data |-> cached]

\* whether the entry point goes through the retry loop of request()
UsesRetryLoop(entry) == entry = "request"

BackoffBlocksOthersSync(q) == q.pc = "backoff"

\* whether a request in its backoff wait keeps the event loop from running
\* other callbacks: `await new Promise(resolve => setTimeout(resolve, delay))`
\* returns to the event loop
BackoffBlocksOthers(q) == FALSE

\* the event loop can run a callback of request r
CanRun(r) == \A o \in Reqs \ {r} : ~BackoffBlocksOthers(reqs[o])

Event(kind, r, fault) == [kind |-> kind, req |-> r, fault |-> fault]

\* a response body as the caller receives it
BodyValue(body) == [kind |-> "body", data |-> body]
NoValue == [kind |-> "none", data |-> Null]

\* the window of the cached-read scenario: 15 minutes
FreshWindow == 15 * 60 * 1000

\* a network-served read returned a body under the key, no invalidation came
\* after it, and it is at most FreshWindow old
FreshlyPopulated(key) == populated[key] # -1 /\ now - populated[key] <= FreshWindow

(***************************************************************************)
(* A caller invokes an entry point of the client.  getLearningPaths first  *)
(* consults the cache; every other entry point, and a cache miss, runs the *)
(* request interceptor and hands the request to the transport.             *)
(***************************************************************************)
StartCall(r, c) ==
  /\ reqs[r].pc \in {"idle", "done"}
  /\ CanRun(r)
  /\ LET reads == IsCachedRead(c.entry)
         key == CallCacheKey(c.entry, c.params)
         cached == IF reads THEN CacheGetResult(cache, key, now) ELSE Null
         config == InterceptedConfig(c.timeout, storage)
         base == [IdleReq EXCEPT !.entry = c.entry, !.method = c.method, !.url = c.url,
                                 !.params = IF c.entry = "getQuizzes"
                                            THEN QuizParams(c.params, storage)
                                            ELSE c.params,
                                 !.remember = c.remember,
                                 !.configTimeout = c.timeout,
                                 !.sent = RequestConfig(c.timeout),
                                 !.value = NoValue,
                                 !.freshAtStart = reads /\ FreshlyPopulated(key)]
     IN /\ cache' = IF reads THEN CacheGetCache(cache, key, now) ELSE cache
        /\ reqs' = [reqs EXCEPT ![r] =
             IF cached # Null
             THEN [base EXCEPT !.pc = "done", !.outcome = "ok", !.fromCache = TRUE,
                               !.value = [kind |-> "cached", data |-> CachedResult(cached).data]]
             ELSE IF config.failed
             THEN [base EXCEPT !.pc = "done", !.outcome = "error", !.sent = config,
                               !.error = ThrownError("optimizer"),
                               !.lastError = ThrownError("optimizer")]
             ELSE [base EXCEPT !.pc = "net", !.sent = config,
                               !.startTime = StartTime(metricsObserved, now),
                               !.auth = RequestAuthHeader(storage, defaultAuth)]]
  /\ lastEvent' = Event("start", r, "none")
  /\ UNCHANGED <<now, cleanupDue, hist, lastOp, probe>>
  /\ UNCHANGED <<storage, session, defaultAuth, location, populated>>
  /\ UNCHANGED <<requestMetrics, metricsObserved, serviceVars>>

\* localStorage 'current_user' as updateUserProfile reads and rewrites it:
\* "u1" is the user object stored by login (it has an id); with nothing
\* stored the rewritten object holds only the profile and has no id
UserHasId(cu) == cu = "u1"
UpdatedUser(cu) == IF cu = Null THEN "profileOnly" ELSE cu

\* whether the body of `if (response.data)` in updateUserProfile runs
ProfileUpdateRuns(q, out, fault) ==
  q.entry = "updateUserProfile" /\ out.ok /\ ~SuccessThrows(fault) /\ out.body # Null

\* the three invalidations of updateUserProfile
InvalidateProfileCaches(c) ==
  CacheInvalidate(CacheInvalidate(CacheInvalidate(c, K_user_profile), K_learning_paths),
                  K_quizzes)

\* what the promise of the entry point settles with for one attempt: NoError
\* when it resolves
Rejection(q, out, fault, st) ==
  IF out.ok
  THEN IF SuccessThrows(fault) THEN ThrownError("gtag")
       ELSE IF q.entry = "authLogin" /\ out.body = Null THEN ThrownError("TypeError")
       ELSE IF ProfileUpdateRuns(q, out, fault) /\ ~UserHasId(UpdatedUser(st.current_user))
       THEN ThrownError("TypeError")
       ELSE IF q.entry = "getQuizzes" /\ out.body # Null /\ q.params = "undefined"
       THEN ThrownError("TypeError")
       ELSE NoError
  ELSE InterceptorError(out.error, determineEducationalContext(q.url), fault)

\* the request after the transport outcome has been handled, up to the next await
ReqAfterRespond(q, out, fault, st) ==
  LET rej == Rejection(q, out, fault, st)
      q1 == [q EXCEPT !.trace = Append(q.trace, out)]
  IN IF rej = NoError
     THEN [q1 EXCEPT !.pc = "done", !.outcome = "ok", !.value = BodyValue(out.body)]
     ELSE IF UsesRetryLoop(q.entry) /\ shouldRetry(rej, q.attempt)
     THEN [q1 EXCEPT !.pc = "backoff", !.waits = q.waits + 1, !.lastError = rej]
     ELSE [q1 EXCEPT !.pc = "done", !.outcome = "error", !.error = rej, !.lastError = rej]

\* a request o that is in flight while the continuation of q runs: when q is
\* an updateUserProfile that performs its invalidations, o is from then on a
\* request issued before the profile update succeeded
OvertakenByUpdate(o, q, out, fault) ==
  IF ProfileUpdateRuns(q, out, fault) /\ o.pc = "net"
  THEN [o EXCEPT !.issuedBeforeUpdate = TRUE]
  ELSE o

\* localStorage after the outcome has been handled
StorageAfterRespond(st, q, out, fault) ==
  IF ~out.ok
  THEN IF SideEffectsRan(fault)
       THEN StorageAfterError(st, determineEducationalContext(q.url), out.error)
       ELSE st
  ELSE IF ProfileUpdateRuns(q, out, fault)
  THEN [st EXCEPT !.current_user = UpdatedUser(st.current_user)]
  ELSE IF Rejection(q, out, fault, st) # NoError \/ out.body = Null THEN st
  ELSE IF q.entry = "login"
  THEN [st EXCEPT !.token = "tokA", !.refresh_token = "refA", !.current_user = "u1"]
  ELSE IF q.entry = "authLogin"
  THEN [st EXCEPT !.auth_token = IF q.remember THEN "tokB" ELSE st.auth_token,
                  !.refresh_token = IF q.remember THEN "refB" ELSE st.refresh_token,
                  !.user_data = "u1"]
  ELSE st

\* sessionStorage after the outcome has been handled (AuthService.login)
SessionAfterRespond(ss, q, out, fault, st) ==
  IF out.ok /\ Rejection(q, out, fault, st) = NoError /\ q.entry = "authLogin" /\ ~q.remember
  THEN [ss EXCEPT !.auth_token = "tokB", !.refresh_token = "refB"]
  ELSE ss

\* the default Authorization header after the outcome has been handled
DefaultAuthAfterRespond(dflt, q, out, fault, st) ==
  IF out.ok /\ Rejection(q, out, fault, st) = NoError /\ q.entry = "authLogin"
  THEN "tokB"
  ELSE dflt

StoresBodyOfEveryGet(q, out, fault) == q.method = "get" /\ out.ok /\ ~SuccessThrows(fault)

\* whether the service method stores the body it received: the cached reads
\* and getQuizzes (whose metadata reads params.ai_optimized before the set)
StoresBody(q, out, fault) ==
  /\ IsCachedRead(q.entry) \/ (q.entry = "getQuizzes" /\ q.params # "undefined")
  /\ out.ok
  /\ ~SuccessThrows(fault)
  /\ out.body # Null

\* one record of requestMetrics: method, url, status and success of an attempt
\* AxiosError.message, as its text and the status or code it names
ErrorMessage(error) ==
  IF error.hasResponse
  THEN [text |-> "Request failed with status code", of |-> error.status]
  ELSE [text |-> "Network Error", of |-> 0]

NoMessage == [text |-> "undefined", of |-> 0]

\* one record of requestMetrics, as the interceptors complete it at time t
\* (status 0: undefined, the failure has no response)
MetricRecord(q, out, t) ==
  [method |-> q.method, url |-> q.url, startTime |-> q.startTime,
   endTime |-> t, duration |-> t - q.startTime, success |-> out.ok,
   status |-> IF out.ok THEN 200 ELSE out.error.status,
   error |-> IF out.ok THEN NoMessage ELSE ErrorMessage(out.error)]

\* requestMetrics after the interceptor: trackAPIMetrics, then push
MetricsAfterRespond(ms, observed, q, out, fault, t) ==
  IF observed /\ fault # "gtag" THEN Append(ms, MetricRecord(q, out, t)) ELSE ms

\* the cache after the continuation of the entry point
CacheAfterRespond(c, q, out, fault, t) ==
  IF StoresBody(q, out, fault)
  THEN CacheSet(c, CallCacheKey(q.entry, q.params), out.body,
                CallCacheMetadata(q.entry), 0, t)
  ELSE IF ProfileUpdateRuns(q, out, fault) THEN InvalidateProfileCaches(c)
  ELSE c

\* the record of network-served reads after the continuation
PopulatedAfterRespond(pop, q, out, fault, t) ==
  IF StoresBody(q, out, fault) /\ IsCachedRead(q.entry)
  THEN [pop EXCEPT ![CallCacheKey(q.entry, q.params)] = t]
  ELSE IF ProfileUpdateRuns(q, out, fault)
  THEN [k \in DOMAIN pop |->
          IF \E pat \in {K_user_profile, K_learning_paths, K_quizzes} : Includes(k, pat)
          THEN -1 ELSE pop[k]]
  ELSE pop

(***************************************************************************)
(* The transport settles one attempt.  The response interceptor runs       *)
(* (analytics, error context, per-domain side effects), then the           *)
(* continuation of the entry point up to its next await.                   *)
(***************************************************************************)
Respond(r, out, fault) ==
  /\ reqs[r].pc = "net"
  /\ CanRun(r)
  /\ LET q == reqs[r]
     IN /\ reqs' = [o \in Reqs |->
                        IF o = r THEN ReqAfterRespond(q, out, fault, storage)
                        ELSE OvertakenByUpdate(reqs[o], q, out, fault)]
        /\ storage' = StorageAfterRespond(storage, q, out, fault)
        /\ session' = SessionAfterRespond(session, q, out, fault, storage)
        /\ defaultAuth' = DefaultAuthAfterRespond(defaultAuth, q, out, fault, storage)
        /\ location' = IF ~out.ok /\ SideEffectsRan(fault)
                       THEN LocationAfterError(location, determineEducationalContext(q.url), out.error)
                       ELSE location
        /\ cache' = CacheAfterRespond(cache, q, out, fault, now)
        /\ populated' = PopulatedAfterRespond(populated, q, out, fault, now)
        /\ requestMetrics' =
             MetricsAfterRespond(requestMetrics, metricsObserved, q, out, fault, now)
  /\ lastEvent' = Event("respond", r, fault)
  /\ UNCHANGED <<now, cleanupDue, hist, lastOp, probe, metricsObserved, serviceVars>>

(***************************************************************************)
(* The setTimeout of the retry loop fires: attempt++ and the loop          *)
(* condition is tested; the request is re-issued or lastError is thrown.   *)
(***************************************************************************)
BackoffElapsed(r) ==
  /\ reqs[r].pc = "backoff"
  /\ CanRun(r)
  /\ LET q == reqs[r]
         a == q.attempt + 1
     IN reqs' = [reqs EXCEPT ![r] =
          IF LoopContinues(a)
          THEN [q EXCEPT !.pc = "net", !.attempt = a,
                         !.sent = InterceptedConfig(q.configTimeout, storage),
                         !.startTime = StartTime(metricsObserved, now),
                         !.issuedBeforeUpdate = FALSE,
                         !.auth = RequestAuthHeader(storage, defaultAuth)]
          ELSE [q EXCEPT !.pc = "done", !.attempt = a, !.outcome = "error",
                         !.error = q.lastError]]
  /\ lastEvent' = Event("timer", r, "none")
  /\ UNCHANGED <<cacheVars, probe, storage, session, defaultAuth, location, populated>>
  /\ UNCHANGED <<requestMetrics, metricsObserved, serviceVars>>

\* EnterpriseAPIClient.clearCache
ClearCache ==
  /\ cache' = CacheInvalidate(cache, <<>>)
  /\ populated' = [k \in DOMAIN populated |-> -1]
  /\ requestMetrics' = <<>>
  /\ lastEvent' = Event("clearCache", "none", "none")
  /\ UNCHANGED <<now, cleanupDue, hist, lastOp, probe>>
  /\ UNCHANGED <<storage, session, defaultAuth, location, reqs, metricsObserved, serviceVars>>

\* Array.prototype.slice(-n)
SliceLast(s, n) == IF Len(s) <= n THEN s ELSE SubSeq(s, Len(s) - n + 1, Len(s))

\* EnterpriseAPIClient.exportAnalytics: the length of the request history and
\* the cached content marker of the exported document; cache.get evicts lazily
ExportAnalytics ==
  /\ lastOp' = [op |-> "exportAnalytics", key |-> K_learning_paths,
                result |-> [history_length |-> Len(SliceLast(requestMetrics, EXPORT_HISTORY)),
                            cached_content |->
                              IF CacheGetResult(cache, K_learning_paths, now) # Null
                              THEN "learning_paths" ELSE Null]]
  /\ cache' = CacheGetCache(cache, K_learning_paths, now)
  /\ UNCHANGED <<now, cleanupDue, hist, probe, pipeVars, serviceVars>>

NoStorage ==
  [token |-> Null, access_token |-> Null, current_user |-> Null, refresh_token |-> Null,
   auth_token |-> Null, user_data |-> Null, user_profile |-> Null]

NoSession == [auth_token |-> Null, refresh_token |-> Null]

(***************************************************************************)
(* services/authService.ts: GamificationService.  Events are numbered in   *)
(* the order awardPoints receives them.                                    *)
(*   eventQueue    the queue of events                                     *)
(*   isProcessing  the flag of processEventQueue                           *)
(*   statistics    whether userStatsStore.statistics is loaded             *)
(*   awarded       number of awardPoints calls made                        *)
(*   awarding      events whose processEvent, called by awardPoints, is    *)
(*                 awaiting its network calls                              *)
(*   draining      events whose processEvent, called by a queue-draining   *)
(*                 loop, is awaited by that loop (one per active loop)     *)
(*   processed     per event, how often processEvent was called with it    *)
(***************************************************************************)
GamificationEvents == 1..MaxAwards

InitGamification ==
  [eventQueue |-> <<>>, isProcessing |-> FALSE, statistics |-> FALSE, awarded |-> 0,
   awarding |-> {}, draining |-> {}, processed |-> [e \in GamificationEvents |-> 0]]

\* processEvent(event) is entered
ProcessEvent(g, e) == [g EXCEPT !.processed[e] = @ + 1]

\* the guard of checkAndProcess and of processEventQueue
DrainMayStart(g) == g.statistics /\ ~g.isProcessing /\ Len(g.eventQueue) > 0

\* one turn of the while loop of processEventQueue: shift and processEvent
DrainNext(g) ==
  LET e == Head(g.eventQueue)
  IN [ProcessEvent(g, e) EXCEPT !.eventQueue = Tail(g.eventQueue),
                                !.draining = @ \cup {e}]

\* userStatsStore.statistics becomes available
StatisticsLoaded ==
  /\ ~gamification.statistics
  /\ gamification' = [gamification EXCEPT !.statistics = TRUE]
  /\ UNCHANGED <<cacheVars, probe, pipeVars, search>>

\* awardPoints: push the event, then processEvent(event); with statistics
\* loaded processEvent awaits trackEvent, without it returns at once
AwardPoints ==
  /\ gamification.awarded < MaxAwards
  /\ LET e == gamification.awarded + 1
         g == [gamification EXCEPT !.awarded = e, !.eventQueue = Append(@, e)]
     IN gamification' =
          [ProcessEvent(g, e) EXCEPT
             !.awarding = IF g.statistics THEN @ \cup {e} ELSE @]
  /\ UNCHANGED <<cacheVars, probe, pipeVars, search>>

\* the processEvent awaited by awardPoints settles (its errors are caught)
AwardSettles(e) ==
  /\ e \in gamification.awarding
  /\ gamification' = [gamification EXCEPT !.awarding = @ \ {e}]
  /\ UNCHANGED <<cacheVars, probe, pipeVars, search>>

\* setInterval(checkAndProcess, 5000): processEventQueue up to its first await
CheckAndProcess ==
  /\ gamification' =
       IF DrainMayStart(gamification)
       THEN DrainNext([gamification EXCEPT !.isProcessing = TRUE])
       ELSE gamification
  /\ UNCHANGED <<cacheVars, probe, pipeVars, search>>

\* the processEvent awaited by a draining loop settles: the loop takes the
\* next event, or ends and its finally block resets isProcessing
DrainSettles(e) ==
  /\ e \in gamification.draining
  /\ LET g == [gamification EXCEPT !.draining = @ \ {e}]
     IN gamification' =
          IF Len(g.eventQueue) > 0 THEN DrainNext(g)
          ELSE [g EXCEPT !.isProcessing = FALSE]
  /\ UNCHANGED <<cacheVars, probe, pipeVars, search>>

(***************************************************************************)
(* services/authService.ts: SearchService analytics.  Events are numbered  *)
(* in the order they are tracked.                                          *)
(*   analyticsQueue  the queue                                             *)
(*   enqueued        number of events tracked                              *)
(*   flushing        the payloads of the flushes in flight; the payload is *)
(*                   the content of the queue when axios.post serialises   *)
(*                   it, in the call of flushAnalytics                     *)
(*   sent            events that were part of the payload of some flush    *)
(*   lastFlush       how the flush that settled last ended                 *)
(***************************************************************************)
SEARCH_FLUSH_AT == 10
CLICK_FLUSH_AT == 5

InitSearch ==
  [analyticsQueue |-> <<>>, enqueued |-> 0, flushing |-> <<>>, sent |-> {},
   lastFlush |-> "none"]

Range(s) == {s[i] : i \in DOMAIN s}

RemoveAt(s, i) == [j \in 1..(Len(s) - 1) |-> IF j < i THEN s[j] ELSE s[j + 1]]

\* flushAnalytics up to its await
FlushAnalytics(s) ==
  IF Len(s.analyticsQueue) = 0 THEN s
  ELSE [s EXCEPT !.flushing = Append(@, s.analyticsQueue),
                 !.sent = @ \cup Range(s.analyticsQueue)]

\* the push of trackSearch / trackResultClick and the flush at the threshold
Track(s, threshold) ==
  LET e == s.enqueued + 1
      pushed == [s EXCEPT !.enqueued = e, !.analyticsQueue = Append(@, e)]
  IN IF Len(pushed.analyticsQueue) >= threshold THEN FlushAnalytics(pushed) ELSE pushed

\* the step stays within the bounds on tracked events and flushes in flight
WithinSearchBounds(s) ==
  s.enqueued <= MaxSearchEvents /\ Len(s.flushing) <= MaxFlushes

TrackSearch ==
  /\ WithinSearchBounds(Track(search, SEARCH_FLUSH_AT))
  /\ search' = Track(search, SEARCH_FLUSH_AT)
  /\ UNCHANGED <<cacheVars, probe, pipeVars, gamification>>

TrackResultClick ==
  /\ WithinSearchBounds(Track(search, CLICK_FLUSH_AT))
  /\ search' = Track(search, CLICK_FLUSH_AT)
  /\ UNCHANGED <<cacheVars, probe, pipeVars, gamification>>

\* the setInterval callback of setupPeriodicFlush (every 30 s)
PeriodicFlush ==
  /\ WithinSearchBounds(FlushAnalytics(search))
  /\ search' = FlushAnalytics(search)
  /\ UNCHANGED <<cacheVars, probe, pipeVars, gamification>>

\* the axios.post of the i-th flush in flight settles: catch logs a failure,
\* finally replaces the queue by an empty one
FlushSettles(i, ok) ==
  /\ i \in 1..Len(search.flushing)
  /\ search' = [search EXCEPT
       !.flushing = RemoveAt(@, i),
       !.analyticsQueue = <<>>,
       !.lastFlush = IF ok THEN "sent" ELSE "failed"]
  /\ UNCHANGED <<cacheVars, probe, pipeVars, gamification>>

\* both services after construction
InitServices ==
  /\ gamification = InitGamification
  /\ search = InitSearch

\* the pipeline after construction of the singleton client, nobody logged in
InitPipe ==
  /\ storage = NoStorage
  /\ session = NoSession
  /\ defaultAuth = Null
  /\ location = "/"
  /\ reqs = [r \in Reqs |-> IdleReq]
  /\ lastEvent = Event("none", "none", "none")
  /\ populated = [k \in ReadKeys |-> -1]
  /\ requestMetrics = <<>>
  /\ metricsObserved = FALSE
  /\ InitServices

NoProbe == [fn |-> "none"]

InitCache ==
  /\ now = 0
  /\ cleanupDue = FALSE
  /\ cache = <<>>
  /\ hist = [k \in CacheKeys |-> NoHist]
  /\ lastOp = NoOp
  /\ probe = NoProbe
  /\ InitPipe

NextCache ==
  \/ \E k \in CacheKeys, v \in CacheValues, ttl \in CustomTTLs : DoSet(k, v, "meta", ttl)
  \/ \E k \in CacheKeys : DoGet(k)
  \/ \E p \in Patterns : DoInvalidate(p)
  \/ Cleanup
  \/ Tick

SpecCache == InitCache /\ [][NextCache]_vars

(***************************************************************************)
(* C1: after any sequence of set, get, invalidate, cleanup and clock       *)
(* advances, get(key) returns the value of the most recent set(key, v)     *)
(* exactly when that entry has not been invalidated and now <= its         *)
(* expiresAt (no eviction removes it earlier); otherwise get returns       *)
(* absent and the key is no longer in the map.                             *)
(***************************************************************************)
C1_GetReturnsFreshValueOrAbsent ==
  lastOp.op = "get" =>
    LET k == lastOp.key
        fresh == hist[k].live /\ now <= hist[k].expires
    IN /\ lastOp.result = (IF fresh THEN hist[k].data ELSE Null)
       /\ (~fresh => k \notin DOMAIN cache)

\* a get at exactly the expiry instant of its entry returned the value
C1_Witness ==
  /\ lastOp.op = "get"
  /\ lastOp.result # Null
  /\ now = hist[lastOp.key].expires
  /\ now > 0

(***************************************************************************)
(* C13: invalidate(pattern) removes exactly the entries whose key contains *)
(* pattern as a substring and leaves every other entry unchanged (a no-op  *)
(* when no key contains it); invalidate() with no pattern removes all      *)
(* entries; in both cases a second identical call immediately afterwards   *)
(* changes nothing.                                                        *)
(***************************************************************************)
C13_Kept(c, pattern) ==
  IF pattern = <<>> THEN {} ELSE {k \in DOMAIN c : ~Includes(k, pattern)}

C13_InvalidateRemovesExactlyMatches ==
  [][lastOp'.op = "invalidate" =>
       /\ DOMAIN cache' = C13_Kept(cache, lastOp'.key)
       /\ \A k \in DOMAIN cache' : cache'[k] = cache[k]
       /\ (lastOp.op = "invalidate" /\ lastOp.key = lastOp'.key => cache' = cache)]_vars

\* invalidate("user") has just removed user_profile and left stats in place
C13_Witness ==
  /\ lastOp.op = "invalidate"
  /\ lastOp.key = S_user
  /\ lastOp.result = "removed"
  /\ DOMAIN cache = {K_stats}

\* the interval timer of the constructor keeps firing while the page lives
SpecCacheFair == SpecCache /\ WF_vars(Cleanup)

C14_Expired(k) == k \in DOMAIN cache /\ now > cache[k].expires

(***************************************************************************)
(* C14: the periodic cleanup, fired every 60 s, removes every entry whose  *)
(* expiry has passed and leaves unexpired entries unchanged, so every      *)
(* entry is eventually removed from the map after it expires even if get   *)
(* is never called on its key.                                             *)
(***************************************************************************)
C14_CleanupEvictsExpiredEntries ==
  /\ [][lastOp'.op = "cleanup" =>
          /\ DOMAIN cache' = {k \in DOMAIN cache : ~(now > cache[k].expires)}
          /\ \A k \in DOMAIN cache' : cache'[k] = cache[k]]_vars
  /\ [](\A k \in CacheKeys : C14_Expired(k) => cleanupDue)
  /\ \A k \in CacheKeys : C14_Expired(k) ~> ~C14_Expired(k)

\* the cleanup has just removed an expired entry and left an unexpired one
C14_Witness ==
  /\ lastOp.op = "cleanup"
  /\ lastOp.result = "removed"
  /\ cache # <<>>
  /\ \E k \in CacheKeys : k \notin DOMAIN cache /\ hist[k].live /\ now > hist[k].expires

(***************************************************************************)
(* Pure functions: the inputs are drawn in the initial state and the       *)
(* function is applied by one step.                                        *)
(***************************************************************************)
ProbeErrors ==
  {HttpError(s) : s \in StatusLo..StatusHi} \cup {NetError(c) : c \in NetCodes}

\* request URLs used by the services of the repository
ProbeUrls ==
  {U_learning_paths, ModulesUrl("7"), U_learning_paths_dash, U_assessment_quizzes,
   U_search_content, U_gamification_events, U_user_gamification, U_analytics_events,
   U_auth_login, U_auth_login_slash, U_auth_profile, U_admin_content, U_admin_stats}

InitFn ==
  /\ now = 0
  /\ cleanupDue = FALSE
  /\ cache = <<>>
  /\ hist = [k \in CacheKeys |-> NoHist]
  /\ lastOp = NoOp
  /\ InitPipe
  /\ \/ \E e \in ProbeErrors, n \in 0..MaxProbeAttempt :
          probe = [fn |-> "input", error |-> e, attempt |-> n, result |-> FALSE]
     \/ \E n \in 0..MaxDelayAttempt :
          probe = [fn |-> "delayInput", attempt |-> n, result |-> 0, next |-> 0]
     \/ \E u \in ProbeUrls :
          probe = [fn |-> "urlInput", url |-> u, result |-> "none"]

\* RetryStrategy.shouldRetry(error, attempt) is evaluated
ApplyShouldRetry ==
  /\ probe.fn = "input"
  /\ probe' = [probe EXCEPT !.fn = "shouldRetry",
                            !.result = shouldRetry(probe.error, probe.attempt)]
  /\ UNCHANGED <<cacheVars, pipeVars, serviceVars>>

\* RetryStrategy.getDelay is evaluated for an attempt number and for the next
ApplyGetDelay ==
  /\ probe.fn = "delayInput"
  /\ probe' = [probe EXCEPT !.fn = "getDelay",
                            !.result = getDelay(probe.attempt),
                            !.next = getDelay(probe.attempt + 1)]
  /\ UNCHANGED <<cacheVars, pipeVars, serviceVars>>

\* EnterpriseAPIClient.determineSeverity(error) is evaluated
ApplyDetermineSeverity ==
  /\ probe.fn = "input"
  /\ probe' = [probe EXCEPT !.fn = "determineSeverity",
                            !.result = determineSeverity(probe.error)]
  /\ UNCHANGED <<cacheVars, pipeVars, serviceVars>>

\* EnterpriseAPIClient.determineEducationalContext(url) is evaluated
ApplyDetermineEducationalContext ==
  /\ probe.fn = "urlInput"
  /\ probe' = [probe EXCEPT !.fn = "determineEducationalContext",
                            !.result = determineEducationalContext(probe.url)]
  /\ UNCHANGED <<cacheVars, pipeVars, serviceVars>>

NextFn ==
  \/ ApplyShouldRetry
  \/ ApplyGetDelay
  \/ ApplyDetermineSeverity
  \/ ApplyDetermineEducationalContext

SpecFn == InitFn /\ [][NextFn]_vars

(***************************************************************************)
(* C4: for a failure that carries an HTTP status, shouldRetry(error, n)    *)
(* is false whenever n >= maxAttempts; for n < maxAttempts it is true for  *)
(* every 5xx status and for 429, and false for every other 4xx status.     *)
(***************************************************************************)
C4_ShouldRetryByStatus ==
  (probe.fn = "shouldRetry" /\ probe.error.hasResponse) =>
    LET s == probe.error.status
        n == probe.attempt
    IN /\ (n >= RETRY_ATTEMPTS => probe.result = FALSE)
       /\ (n < RETRY_ATTEMPTS /\ (s \in 500..599 \/ s = 429) => probe.result = TRUE)
       /\ (n < RETRY_ATTEMPTS /\ s \in 400..499 /\ s # 429 => probe.result = FALSE)

\* shouldRetry was evaluated for a 429 below the budget and answered true
C4_Witness ==
  /\ probe.fn = "shouldRetry"
  /\ probe.error.hasResponse
  /\ probe.error.status = 429
  /\ probe.attempt = RETRY_ATTEMPTS - 1
  /\ probe.result = TRUE

(***************************************************************************)
(* C5: for every attempt number n < maxAttempts, shouldRetry is true for   *)
(* every failure that has no HTTP status at all.                           *)
(***************************************************************************)
C5_ShouldRetryEveryNetworkFailure ==
  (probe.fn = "shouldRetry" /\ ~probe.error.hasResponse
     /\ probe.attempt < RETRY_ATTEMPTS) => probe.result = TRUE

\* shouldRetry was evaluated for a reset connection below the budget
C5_Witness ==
  /\ probe.fn = "shouldRetry"
  /\ ~probe.error.hasResponse
  /\ probe.error.code = "ECONNRESET"
  /\ probe.attempt < RETRY_ATTEMPTS
  /\ probe.result = TRUE

(***************************************************************************)
(* C19: delay(n) = min(base * 2^n, cap) with base 1000 ms and cap 30000    *)
(* ms; hence delay(n+1) >= delay(n) and delay(n) <= cap for every attempt  *)
(* number n >= 0.                                                          *)
(***************************************************************************)
C19_Min(a, b) == IF a <= b THEN a ELSE b

C19_DelayIsCappedExponential ==
  probe.fn = "getDelay" =>
    /\ probe.result = C19_Min(1000 * 2^probe.attempt, 30000)
    /\ probe.next >= probe.result
    /\ probe.result <= 30000

\* the delay was evaluated where the cap first applies: 16000 * 2 > 30000
C19_Witness ==
  /\ probe.fn = "getDelay"
  /\ probe.attempt = 4
  /\ probe.result = 16000
  /\ probe.next = 30000

(***************************************************************************)
(* C20: the severity of a failure is critical for status >= 500, high for  *)
(* status 401 or 403, medium for status 429, low for every other 4xx       *)
(* status, and medium when the failure carries no HTTP status at all.      *)
(***************************************************************************)
C20_SeverityByStatus ==
  probe.fn = "determineSeverity" =>
    LET s == probe.error.status
    IN IF ~probe.error.hasResponse THEN probe.result = "medium"
       ELSE /\ (s >= 500 => probe.result = "critical")
            /\ (s \in {401, 403} => probe.result = "high")
            /\ (s = 429 => probe.result = "medium")
            /\ (s \in 400..499 /\ s \notin {401, 403, 429} => probe.result = "low")

\* the severity of a 403 was evaluated as high
C20_Witness ==
  /\ probe.fn = "determineSeverity"
  /\ probe.error.hasResponse
  /\ probe.error.status = 403
  /\ probe.result = "high"

\* the domain by the ordered marker list as stated
C21_Domain(url) ==
  IF Includes(url, S_learning) \/ Includes(url, S_module) THEN "learning"
  ELSE IF Includes(url, S_assessment) \/ Includes(url, S_quiz) THEN "assessment"
  ELSE IF Includes(url, S_achievement) \/ Includes(url, S_gamification) THEN "gamification"
  ELSE IF Includes(url, S_search) \/ Includes(url, S_content) THEN "search"
  ELSE IF Includes(url, S_auth) \/ Includes(url, S_login) THEN "authentication"
  ELSE "learning"

(***************************************************************************)
(* C21: the error domain is the first match of the request URL against the *)
(* ordered marker list: "learning" or "module" gives learning; else        *)
(* "assessment" or "quiz" gives assessment; else "achievement" or          *)
(* "gamification" gives gamification; else "search" or "content" gives     *)
(* search; else "auth" or "login" gives authentication; else the default   *)
(* learning.                                                               *)
(***************************************************************************)
C21_DomainIsFirstMarkerMatch ==
  probe.fn = "determineEducationalContext" => probe.result = C21_Domain(probe.url)

\* /assessment/quizzes was classified as assessment
C21_Witness ==
  /\ probe.fn = "determineEducationalContext"
  /\ probe.url = U_assessment_quizzes
  /\ probe.result = "assessment"

(***************************************************************************)
(* TTL specification: cache.set(key, data, metadata) with the third        *)
(* argument omitted (<<>>) or given, at several instants.  The metadata    *)
(* object { type: ... } is modelled by its type string.                    *)
(***************************************************************************)
TtlKeys == {K_stats, K_user_profile, K_learning_paths, K_quizzes, K_user_learning}
TtlTags == {<<>>, S_user, S_learning}

InitTtl ==
  /\ now \in {n * CLEANUP_INTERVAL : n \in 0..MaxTtlTicks}
  /\ cleanupDue = FALSE
  /\ cache = <<>>
  /\ hist = [k \in TtlKeys |-> NoHist]
  /\ lastOp = NoOp
  /\ probe = NoProbe
  /\ InitPipe

NextTtl ==
  \/ \E k \in TtlKeys, tag \in TtlTags : DoSet(k, "v1", tag, 0)

SpecTtl == InitTtl /\ [][NextTtl]_vars

\* the TTL policy as stated: by substring of the tag, or of the key when no
\* tag is given
C11_ttlFor(s) ==
  IF Includes(s, S_learning) \/ Includes(s, S_module) THEN 15 * 60 * 1000
  ELSE IF Includes(s, S_user) \/ Includes(s, S_profile) THEN 2 * 60 * 1000
  ELSE IF Includes(s, S_assessment) \/ Includes(s, S_quiz) THEN 10 * 60 * 1000
  ELSE 5 * 60 * 1000

C11_TagOrKey(entry, key) == IF entry.metadata # <<>> THEN entry.metadata ELSE key

(***************************************************************************)
(* C11: set(key, value, tag) stores the entry with expiresAt = now +        *)
(* ttlFor(tag, or the key when no tag is given), where ttlFor is 15        *)
(* minutes for "learning" or "module", 2 minutes for "user" or "profile",  *)
(* 10 minutes for "assessment" or "quiz", and 5 minutes otherwise.         *)
(***************************************************************************)
C11_SetUsesTagOrKeyTTL ==
  lastOp.op = "set" =>
    /\ lastOp.key \in DOMAIN cache
    /\ cache[lastOp.key].expires
         = now + C11_ttlFor(C11_TagOrKey(cache[lastOp.key], lastOp.key))

\* a set without a tag under a quiz key stored the entry for 10 minutes
C11_Witness ==
  /\ lastOp.op = "set"
  /\ lastOp.key = K_quizzes
  /\ cache[K_quizzes].metadata = <<>>
  /\ cache[K_quizzes].expires = now + 10 * 60 * 1000

(***************************************************************************)
(* C12: for every cache key or tag containing "user", the TTL assigned by  *)
(* set is strictly shorter than the TTL assigned to any key or tag         *)
(* containing "learning".                                                  *)
(***************************************************************************)
C12_Mentions(k, s) == Includes(k, s) \/ Includes(cache[k].metadata, s)

C12_UserTTLShorterThanLearningTTL ==
  \A k1 \in DOMAIN cache, k2 \in DOMAIN cache :
    (C12_Mentions(k1, S_user) /\ C12_Mentions(k2, S_learning))
       => cache[k1].expires - now < cache[k2].expires - now

\* user_profile and learning_paths were both set without a tag: 2 minutes
\* against 15 minutes
C12_Witness ==
  /\ {K_user_profile, K_learning_paths} \subseteq DOMAIN cache
  /\ cache[K_user_profile].metadata = <<>>
  /\ cache[K_learning_paths].metadata = <<>>
  /\ cache[K_user_profile].expires - now = 2 * 60 * 1000
  /\ cache[K_learning_paths].expires - now = 15 * 60 * 1000

(***************************************************************************)
(* Retry specification: calls through the retrying request() and through   *)
(* the pass-through entry points, against every transport outcome.  The    *)
(* external calls of the response path return normally here.               *)
(***************************************************************************)
RetryCalls ==
  {Call("request", "get", U_learning_paths, "undefined", FALSE),
   Call("get", "get", U_learning_paths, "undefined", FALSE),
   Call("getLearningPaths", "get", U_learning_paths, "undefined", FALSE)}

RetryOutcomes ==
  {OkOutcome("b1"),
   FailOutcome(HttpError(404)), FailOutcome(HttpError(429)), FailOutcome(HttpError(503)),
   FailOutcome(NetError("ECONNRESET"))}

InitRetry ==
  /\ now = 0
  /\ cleanupDue = FALSE
  /\ cache = <<>>
  /\ hist = [k \in CacheKeys |-> NoHist]
  /\ lastOp = NoOp
  /\ probe = NoProbe
  /\ InitPipe

NextRetry ==
  \/ \E r \in Reqs, c \in RetryCalls : StartCall(r, c)
  \/ \E r \in Reqs, o \in RetryOutcomes : Respond(r, o, "none")
  \/ \E r \in Reqs : BackoffElapsed(r)

SpecRetry == InitRetry /\ [][NextRetry]_vars

\* every attempt settles (the transport enforces CONFIG.TIMEOUT) and every
\* setTimeout of the retry loop fires
SpecRetryFair ==
  /\ SpecRetry
  /\ \A r \in Reqs : WF_vars(\E o \in RetryOutcomes : Respond(r, o, "none"))
  /\ \A r \in Reqs : WF_vars(BackoffElapsed(r))

\* as SpecRetry, where the attempts of every request settle but the timers
\* of the retry loop may take arbitrarily long
SpecRetrySlowTimers ==
  /\ SpecRetry
  /\ \A r \in Reqs : WF_vars(\E o \in RetryOutcomes : Respond(r, o, "none"))

Attempts(q) == Len(q.trace)
LastOutcome(q) == q.trace[Len(q.trace)]
Is503(out) == out = FailOutcome(HttpError(503))
Retryable(error) ==
  IF error.hasResponse THEN error.status = 429 \/ error.status \in 500..599
  ELSE error.name = "AxiosError"

(***************************************************************************)
(* C2: one logical request issued through the retrying request() makes at  *)
(* most maxAttempts network attempts and then terminates, returning the    *)
(* body of the first successful attempt or propagating the failure; when   *)
(* every attempt returns 503 the caller observes exactly maxAttempts       *)
(* attempts and then receives the propagated failure.                      *)
(***************************************************************************)
C2_RequestShape(q) ==
  /\ Attempts(q) <= RETRY_ATTEMPTS
  /\ \A i \in 1..(Attempts(q) - 1) : ~q.trace[i].ok
  /\ (q.pc = "done" /\ q.outcome = "ok") =>
        LastOutcome(q).ok /\ q.value = BodyValue(LastOutcome(q).body)
  /\ (q.pc = "done" /\ q.outcome = "error") =>
        ~LastOutcome(q).ok /\ q.error = LastOutcome(q).error
  /\ (q.pc = "done" /\ \A i \in 1..Attempts(q) : Is503(q.trace[i])) =>
        Attempts(q) = RETRY_ATTEMPTS /\ q.outcome = "error" /\ q.error = HttpError(503)

C2_RetryBoundedAndTerminates ==
  /\ [](\A r \in Reqs : reqs[r].entry = "request" => C2_RequestShape(reqs[r]))
  /\ \A r \in Reqs :
       (reqs[r].entry = "request" /\ reqs[r].pc \in {"net", "backoff"})
          ~> (reqs[r].pc = "done")

\* a request() whose three attempts all returned 503 has thrown the 503
C2_Witness ==
  \E r \in Reqs :
    /\ reqs[r].entry = "request"
    /\ reqs[r].pc = "done"
    /\ Attempts(reqs[r]) = RETRY_ATTEMPTS
    /\ \A i \in 1..RETRY_ATTEMPTS : Is503(reqs[r].trace[i])
    /\ reqs[r].error = HttpError(503)

(***************************************************************************)
(* C3: every outbound call issued through any entry point of the client    *)
(* is subject to the same retry strategy: a 429, 5xx or network failure is *)
(* surfaced to the caller only after maxAttempts network attempts.         *)
(***************************************************************************)
C3_EveryEntryPointRetries ==
  \A r \in Reqs :
    (reqs[r].pc = "done" /\ reqs[r].outcome = "error" /\ Retryable(reqs[r].error))
       => Attempts(reqs[r]) = RETRY_ATTEMPTS

(***************************************************************************)
(* C6: a request that fails with a 4xx status other than 429 results in    *)
(* exactly one network attempt, with no backoff wait, and the failure is   *)
(* surfaced to the caller immediately.                                     *)
(***************************************************************************)
Is4xxNot429(out) ==
  ~out.ok /\ out.error.hasResponse /\ out.error.status \in 400..499 /\ out.error.status # 429

C6_ClientErrorSurfacesAtOnce ==
  \A r \in Reqs :
    (Attempts(reqs[r]) >= 1 /\ Is4xxNot429(reqs[r].trace[1])) =>
       /\ reqs[r].pc = "done"
       /\ Attempts(reqs[r]) = 1
       /\ reqs[r].waits = 0
       /\ reqs[r].outcome = "error"
       /\ reqs[r].error = reqs[r].trace[1].error

\* a request() call received a 404 and is done after that single attempt
C6_Witness ==
  \E r \in Reqs :
    /\ reqs[r].entry = "request"
    /\ reqs[r].pc = "done"
    /\ reqs[r].trace = <<FailOutcome(HttpError(404))>>
    /\ lastEvent.kind = "respond" /\ lastEvent.req = r

(***************************************************************************)
(* C7: in the retry loop every backoff wait is followed by a re-issue of   *)
(* the request; the failure is propagated without a backoff wait that no   *)
(* re-issue follows.                                                       *)
(***************************************************************************)
C7_EveryWaitIsFollowedByReissue ==
  \A r \in Reqs :
    (reqs[r].pc = "done" /\ Attempts(reqs[r]) >= 1)
       => reqs[r].waits = Attempts(reqs[r]) - 1

\* a request() was re-issued after a backoff wait and then succeeded
C7_Witness ==
  \E r \in Reqs :
    /\ reqs[r].entry = "request"
    /\ reqs[r].pc = "done"
    /\ reqs[r].outcome = "ok"
    /\ reqs[r].waits = 1
    /\ Attempts(reqs[r]) = 2

AuthCalls ==
  {Call("login", "post", U_auth_login, "undefined", FALSE),
   Call("authLogin", "post", U_auth_login_slash, "undefined", TRUE),
   Call("authLogin", "post", U_auth_login_slash, "undefined", FALSE),
   Call("post", "post", U_auth_login, "undefined", FALSE),
   Call("request", "post", U_auth_login, "undefined", FALSE),
   Call("get", "get", U_learning_paths, "undefined", FALSE)}

AuthOutcomes ==
  {OkOutcome("b1"), OkOutcome(Null),
   FailOutcome(HttpError(401)), FailOutcome(HttpError(503))}

NextAuth ==
  \/ \E r \in Reqs, c \in AuthCalls : StartCall(r, c)
  \/ \E r \in Reqs, o \in AuthOutcomes : Respond(r, o, "none")
  \/ \E r \in Reqs : BackoffElapsed(r)

SpecAuth == InitRetry /\ [][NextAuth]_vars

\* the request r has just received a 401 for POST /auth/login
JustGot401OnLogin(r) ==
  /\ lastEvent.kind = "respond" /\ lastEvent.req = r
  /\ reqs[r].method = "post"
  /\ reqs[r].url = U_auth_login
  /\ LastOutcome(reqs[r]) = FailOutcome(HttpError(401))

(***************************************************************************)
(* C9: after a POST to /auth/login returns 401, the stored credentials     *)
(* have been cleared and the next outbound request sent through the        *)
(* client carries no Authorization header.                                 *)
(***************************************************************************)
C9_UnauthorizedLoginClearsCredentials ==
  \A r \in Reqs :
    JustGot401OnLogin(r) =>
      /\ storage.token = Null
      /\ storage.access_token = Null
      /\ storage.current_user = Null
      /\ RequestAuthHeader(storage, defaultAuth) = Null

\* a logged-in client (token in localStorage) received a 401 for POST
\* /auth/login and the token is gone
C9_Witness ==
  \E r \in Reqs :
    /\ JustGot401OnLogin(r)
    /\ reqs[r].auth = "tokA"
    /\ storage.token = Null
    /\ location = "/login"

(***************************************************************************)
(* C17: the session-clearing side effect (removing the persisted session   *)
(* state and redirecting to the login entry point) runs exactly when the   *)
(* failure is classified as domain authentication and its status is 401;   *)
(* every other failure leaves the stored credentials and the location      *)
(* unchanged.                                                              *)
(***************************************************************************)
C17_IsAuth401(q, out) ==
  /\ determineEducationalContext(q.url) = "authentication"
  /\ out.error.hasResponse
  /\ out.error.status = 401

C17_SessionClearedExactlyOnAuth401 ==
  [][\A r \in Reqs :
       (lastEvent' = Event("respond", r, "none") /\ reqs[r].pc = "net"
          /\ ~LastOutcome(reqs'[r]).ok) =>
         IF C17_IsAuth401(reqs[r], LastOutcome(reqs'[r]))
         THEN /\ storage'.token = Null
              /\ storage'.current_user = Null
              /\ location' = "/login"
         ELSE /\ storage' = storage
              /\ session' = session
              /\ defaultAuth' = defaultAuth
              /\ location' = location]_vars

\* a logged-in client received a 503 for POST /auth/login: token and
\* location are as they were
C17_Witness ==
  \E r \in Reqs :
    /\ lastEvent = Event("respond", r, "none")
    /\ reqs[r].url = U_auth_login
    /\ LastOutcome(reqs[r]) = FailOutcome(HttpError(503))
    /\ storage.token = "tokA"
    /\ storage.current_user = "u1"
    /\ location = "/"

(***************************************************************************)
(* Failure-path specification: as above, and the external calls made       *)
(* while a response is handled may fail (Faults).                          *)
(***************************************************************************)
FailCalls ==
  {Call("get", "get", U_learning_paths, "undefined", FALSE),
   Call("post", "post", U_auth_login, "undefined", FALSE),
   Call("request", "get", U_learning_paths, "undefined", FALSE)}

FailOutcomes ==
  {OkOutcome("b1"), FailOutcome(HttpError(401)), FailOutcome(HttpError(503))}

NextFail ==
  \/ \E r \in Reqs, c \in FailCalls : StartCall(r, c)
  \/ \E r \in Reqs, o \in FailOutcomes, f \in Faults : Respond(r, o, f)
  \/ \E r \in Reqs : BackoffElapsed(r)

SpecFail == InitRetry /\ [][NextFail]_vars

(***************************************************************************)
(* C10: for every failed call, after error-context resolution and the      *)
(* per-domain side effects, the error delivered to the caller is the       *)
(* original transport error, also when the analytics emission or a side    *)
(* effect itself fails.                                                    *)
(***************************************************************************)
C10_OriginalErrorIsDelivered ==
  \A r \in Reqs :
    (reqs[r].pc = "done" /\ Attempts(reqs[r]) >= 1 /\ ~LastOutcome(reqs[r]).ok) =>
       /\ reqs[r].outcome = "error"
       /\ reqs[r].error = LastOutcome(reqs[r]).error

\* a call failed with 503 while localStorage refused the analytics record:
\* that failure was swallowed and the 503 reached the caller
C10_Witness ==
  \E r \in Reqs :
    /\ lastEvent = Event("respond", r, "store")
    /\ reqs[r].pc = "done"
    /\ LastOutcome(reqs[r]) = FailOutcome(HttpError(503))
    /\ reqs[r].error = HttpError(503)

(***************************************************************************)
(* Metrics specification: calls through get, one after another, with       *)
(* requestMetrics observed; exportAnalytics and clearCache.                *)
(***************************************************************************)
MetricCalls == {Call("get", "get", U_learning_paths, "undefined", FALSE)}

MetricOutcomes == {OkOutcome("b1"), FailOutcome(HttpError(503))}

InitMetrics ==
  /\ now = 0
  /\ cleanupDue = FALSE
  /\ cache = <<>>
  /\ hist = [k \in CacheKeys |-> NoHist]
  /\ lastOp = NoOp
  /\ probe = NoProbe
  /\ storage = NoStorage
  /\ session = NoSession
  /\ defaultAuth = Null
  /\ location = "/"
  /\ reqs = [r \in Reqs |-> IdleReq]
  /\ lastEvent = Event("none", "none", "none")
  /\ populated = [k \in ReadKeys |-> -1]
  /\ requestMetrics = <<>>
  /\ metricsObserved = TRUE
  /\ InitServices

MetricReqs == {"r1"}

NextMetrics ==
  \/ \E r \in MetricReqs, c \in MetricCalls :
       /\ Len(requestMetrics) < MaxMetricRequests
       /\ StartCall(r, c)
  \/ \E r \in MetricReqs, o \in MetricOutcomes :
       /\ o.ok \/ Len(requestMetrics) < MaxMetricFailures
       /\ Respond(r, o, "none")
  \/ ExportAnalytics
  \/ ClearCache

SpecMetrics == InitMetrics /\ [][NextMetrics]_vars

(***************************************************************************)
(* C15: the metrics buffer is a bounded ring buffer: after any sequence of *)
(* requests it never holds more than a fixed capacity (100) of             *)
(* RequestMetric records, the oldest being evicted when the capacity is    *)
(* exceeded.                                                               *)
(***************************************************************************)
C15_MetricsBufferIsBounded == Len(requestMetrics) <= 100

\* the buffer holds one hundred records, the first of them a failure, and
\* the export has just shown one hundred
C15_Witness ==
  /\ Len(requestMetrics) = 100
  /\ ~requestMetrics[1].success
  /\ lastOp.op = "exportAnalytics"
  /\ lastOp.result.history_length = 100

(***************************************************************************)
(* Optimization specification: calls with and without a timeout of their   *)
(* own, against every content of the localStorage item 'user_profile'.     *)
(***************************************************************************)
OptCalls ==
  {Call("get", "get", U_learning_paths, "undefined", FALSE),
   WithTimeout(Call("get", "get", U_learning_paths, "undefined", FALSE), 5000),
   WithTimeout(Call("request", "get", U_learning_paths, "undefined", FALSE), 60000)}

OptOutcomes == {OkOutcome("b1"), FailOutcome(HttpError(503))}

InitOpt ==
  /\ now = 0
  /\ cleanupDue = FALSE
  /\ cache = <<>>
  /\ hist = [k \in CacheKeys |-> NoHist]
  /\ lastOp = NoOp
  /\ probe = NoProbe
  /\ \E blob \in ProfileBlobs : storage = [NoStorage EXCEPT !.user_profile = blob]
  /\ session = NoSession
  /\ defaultAuth = Null
  /\ location = "/"
  /\ reqs = [r \in Reqs |-> IdleReq]
  /\ lastEvent = Event("none", "none", "none")
  /\ populated = [k \in ReadKeys |-> -1]
  /\ requestMetrics = <<>>
  /\ metricsObserved = FALSE
  /\ InitServices

NextOpt ==
  \/ \E r \in Reqs, c \in OptCalls : StartCall(r, c)
  \/ \E r \in Reqs, o \in OptOutcomes : Respond(r, o, "none")
  \/ \E r \in Reqs : BackoffElapsed(r)

SpecOpt == InitOpt /\ [][NextOpt]_vars

(***************************************************************************)
(* C16: the pre-request optimization step is best-effort: when it succeeds *)
(* the outgoing request's timeout is overridden with a bounded value       *)
(* (30000 or 45000 ms), and when the optimizer itself errors (e.g. the     *)
(* cached user-profile blob is unparsable) the error is swallowed and the  *)
(* unmodified request is sent; the optimizer never fails the call.         *)
(***************************************************************************)
C16_OptimizerIsBestEffort ==
  \A r \in Reqs :
    reqs[r].pc # "idle" =>
      /\ ~reqs[r].sent.failed
      /\ reqs[r].pc = "done" => Attempts(reqs[r]) >= 1
      /\ IF storage.user_profile \in {"unparsable", "jsonNull"}
         THEN /\ reqs[r].sent.timeout = reqs[r].configTimeout
              /\ ~reqs[r].sent.optimized
         ELSE /\ reqs[r].sent.timeout = (IF storage.user_profile = "visual" THEN 45000 ELSE 30000)
              /\ reqs[r].sent.optimized

\* with an unparsable profile blob a call with a timeout of its own was sent
\* with that timeout and has returned its body
C16_Witness ==
  \E r \in Reqs :
    /\ storage.user_profile = "unparsable"
    /\ reqs[r].configTimeout = 5000
    /\ reqs[r].sent.timeout = 5000
    /\ reqs[r].pc = "done"
    /\ reqs[r].outcome = "ok"

(***************************************************************************)
(* Profile specification: updateUserProfile against a cache filled by      *)
(* getLearningPaths and getModules, with and without a user stored by      *)
(* login.                                                                  *)
(***************************************************************************)
ProfileCalls ==
  {Call("updateUserProfile", "patch", U_auth_profile, "undefined", FALSE),
   Call("login", "post", U_auth_login, "undefined", FALSE),
   Call("getLearningPaths", "get", U_learning_paths, "undefined", FALSE),
   Call("getModules", "get", ModulesUrl("7"), "7", FALSE)}

ProfileOutcomes == {OkOutcome("b1"), OkOutcome(Null), FailOutcome(HttpError(503))}

NextProfile ==
  \/ \E r \in Reqs, c \in ProfileCalls : StartCall(r, c)
  \/ \E r \in Reqs, o \in ProfileOutcomes : Respond(r, o, "none")

SpecProfile == InitRetry /\ [][NextProfile]_vars

C18_IsProfileKey(k) ==
  Includes(k, K_user_profile) \/ Includes(k, K_learning_paths) \/ Includes(k, K_quizzes)

(***************************************************************************)
(* C18: after a successful updateUserProfile, no cache entry whose key     *)
(* contains "user_profile", "learning_paths" or "quizzes" remains and      *)
(* every other cache entry is unchanged; after a failed updateUserProfile  *)
(* the cache is unchanged.                                                 *)
(***************************************************************************)
C18_ProfileUpdateInvalidatesCaches ==
  [][\A r \in Reqs :
       (lastEvent' = Event("respond", r, "none") /\ reqs[r].pc = "net"
          /\ reqs[r].entry = "updateUserProfile") =>
         IF reqs'[r].outcome = "ok"
         THEN /\ \A k \in DOMAIN cache' : ~C18_IsProfileKey(k)
              /\ \A k \in DOMAIN cache :
                   ~C18_IsProfileKey(k) => k \in DOMAIN cache' /\ cache'[k] = cache[k]
         ELSE cache' = cache]_vars

\* a logged-in user's updateUserProfile has just succeeded: the learning
\* paths fetched before are gone from the cache, the modules are still there
C18_Witness ==
  \E r \in Reqs, r2 \in Reqs :
    /\ lastEvent = Event("respond", r, "none")
    /\ reqs[r].entry = "updateUserProfile"
    /\ reqs[r].outcome = "ok"
    /\ reqs[r].value = BodyValue("b1")
    /\ reqs[r2].entry = "getLearningPaths"
    /\ reqs[r2].outcome = "ok"
    /\ ~reqs[r2].fromCache
    /\ reqs[r2].value = BodyValue("b1")
    /\ DOMAIN cache = {ModulesKey("7")}

(***************************************************************************)
(* Cache-write specification: every kind of call of the client, one at a   *)
(* time, against successful, empty and failed responses.                   *)
(***************************************************************************)
WriteCalls ==
  {Call("getLearningPaths", "get", U_learning_paths, "undefined", FALSE),
   Call("getLearningPath", "get", PathUrl("7"), "7", FALSE),
   Call("getModules", "get", ModulesUrl("7"), "7", FALSE),
   Call("getQuizzes", "get", U_assessment_quizzes, "{}", FALSE),
   Call("getQuizzes", "get", U_assessment_quizzes, "undefined", FALSE),
   Call("get", "get", U_learning_paths, "undefined", FALSE),
   Call("post", "post", U_gamification_events, "undefined", FALSE),
   Call("request", "get", U_learning_paths, "undefined", FALSE),
   Call("login", "post", U_auth_login, "undefined", FALSE),
   Call("updateUserProfile", "patch", U_auth_profile, "undefined", FALSE)}

WriteOutcomes == {OkOutcome("b1"), OkOutcome(Null), FailOutcome(HttpError(503))}

WriteReqs == {"r1"}

NextWrites ==
  \/ \E r \in WriteReqs, c \in WriteCalls : StartCall(r, c)
  \/ \E r \in WriteReqs, o \in WriteOutcomes : Respond(r, o, "none")
  \/ \E r \in WriteReqs : BackoffElapsed(r)
  \/ ClearCache

SpecWrites == InitRetry /\ [][NextWrites]_vars

\* the step is the handling of a response to request r
C23_Responds(r) == lastEvent' = Event("respond", r, "none") /\ reqs[r].pc = "net"

\* the entry was written or rewritten by the step
C23_Written(k) == k \in DOMAIN cache' /\ (k \notin DOMAIN cache \/ cache'[k] # cache[k])

(***************************************************************************)
(* C23: the cache is written only by the specific read operations          *)
(* (getLearningPaths, getLearningPath, getModules, getQuizzes) and only on *)
(* a successful response with a body: a failed request, a POST/PATCH       *)
(* mutation, and a generic get/post/request call each leave the cache      *)
(* contents unchanged apart from explicit invalidation.                    *)
(***************************************************************************)
C23_OnlyReadsWriteTheCache ==
  [][/\ \A k \in DOMAIN cache' :
          C23_Written(k) =>
            \E r \in Reqs :
              /\ C23_Responds(r)
              /\ reqs[r].entry \in {"getLearningPaths", "getLearningPath", "getModules", "getQuizzes"}
              /\ LastOutcome(reqs'[r]).ok
              /\ LastOutcome(reqs'[r]).body # Null
              /\ k = CallCacheKey(reqs[r].entry, reqs[r].params)
     /\ \A r \in Reqs :
          (C23_Responds(r) /\ reqs[r].entry # "updateUserProfile"
             /\ (~LastOutcome(reqs'[r]).ok \/ reqs[r].method # "get"
                   \/ reqs[r].entry \in {"get", "post", "request"}))
            => cache' = cache]_vars

\* getQuizzes({}) has just stored its body under quizzes_{}
C23_Witness ==
  \E r \in Reqs :
    /\ lastEvent = Event("respond", r, "none")
    /\ reqs[r].entry = "getQuizzes"
    /\ reqs[r].outcome = "ok"
    /\ QuizzesKey("{}") \in DOMAIN cache
    /\ cache[QuizzesKey("{}")].data = "b1"

(***************************************************************************)
(* Timed-metrics specification: the retrying request() and a plain get     *)
(* while the clock advances, with requestMetrics observed.                 *)
(***************************************************************************)
TimedCalls ==
  {Call("request", "get", U_learning_paths, "undefined", FALSE),
   Call("get", "get", U_learning_paths, "undefined", FALSE)}

TimedOutcomes ==
  {OkOutcome("b1"), FailOutcome(HttpError(503)), FailOutcome(NetError("ECONNRESET"))}

\* the analytics emission of trackAPIMetrics works, or gtag throws in it
TimedFaults == {"none", "gtag"}

TickTimed == TickUpTo(MaxTimedTicks)

\* attempts started so far and not cleared
TimedAttempts == Len(requestMetrics) + Cardinality({r \in Reqs : reqs[r].pc = "net"})

NextTimed ==
  \/ \E r \in MetricReqs, c \in TimedCalls :
       /\ TimedAttempts < MaxTimedAttempts
       /\ StartCall(r, c)
  \/ \E r \in MetricReqs, o \in TimedOutcomes, f \in TimedFaults : Respond(r, o, f)
  \/ \E r \in MetricReqs :
       /\ TimedAttempts < MaxTimedAttempts \/ ~LoopContinues(reqs[r].attempt + 1)
       /\ BackoffElapsed(r)
  \/ ClearCache
  \/ Cleanup
  \/ TickTimed

SpecTimed == InitMetrics /\ [][NextTimed]_vars

(***************************************************************************)
(* C24: every network attempt that completes, including each retry attempt *)
(* of one logical request, appends exactly one RequestMetric to the metrics *)
(* buffer: succeeded = true with the HTTP status on success, succeeded =   *)
(* false with the error message on failure, and durationMs = endTime -     *)
(* startTime; a record is not changed after it is appended.                *)
(***************************************************************************)
C24_EveryAttemptAppendsOneMetric ==
  [][/\ \A r \in Reqs :
          (lastEvent'.kind = "respond" /\ lastEvent'.req = r /\ reqs[r].pc = "net") =>
            LET out == LastOutcome(reqs'[r])
                rec == requestMetrics'[Len(requestMetrics')]
            IN /\ Len(requestMetrics') = Len(requestMetrics) + 1
               /\ rec.success = out.ok
               /\ out.ok => rec.status = 200
               /\ ~out.ok => /\ rec.error.text # "undefined"
                             /\ rec.error.of = out.error.status
                             /\ rec.status = out.error.status
               /\ rec.startTime = reqs[r].startTime
               /\ rec.endTime = now
               /\ rec.duration = rec.endTime - rec.startTime
     /\ lastEvent'.kind \notin {"respond", "clearCache"} => requestMetrics' = requestMetrics
     /\ lastEvent'.kind # "clearCache" =>
          \A i \in 1..Len(requestMetrics) : requestMetrics'[i] = requestMetrics[i]]_vars

\* an attempt completed while gtag threw in trackAPIMetrics: the push that
\* follows it was never reached and the buffer holds no record of the attempt
C24_Witness ==
  \E r \in Reqs :
    /\ lastEvent = Event("respond", r, "gtag")
    /\ reqs[r].entry = "get"
    /\ reqs[r].pc = "done"
    /\ requestMetrics = <<>>

\* the credential of local storage as the request interceptor reads it
C25_StoredCredential(st) ==
  IF st.token # Null THEN st.token ELSE st.access_token

\* the step issues a network attempt of r (a first attempt or a retry)
C25_Issues(r) ==
  /\ lastEvent'.kind \in {"start", "timer"} /\ lastEvent'.req = r
  /\ reqs'[r].pc = "net"

(***************************************************************************)
(* C25: every network attempt, including each retry attempt of the same    *)
(* logical request, carries a bearer Authorization header exactly when a    *)
(* credential is present in local storage at the moment the attempt is     *)
(* issued, with the value read at that moment.                             *)
(***************************************************************************)
C25_HeaderIsStoredCredential ==
  [][\A r \in Reqs : C25_Issues(r) => reqs'[r].auth = C25_StoredCredential(storage)]_vars

\* after AuthService.login without rememberMe (token in sessionStorage and in
\* the instance defaults) an attempt is in flight with a bearer header while
\* local storage holds no credential at all
C25_Witness ==
  \E r \in Reqs :
    /\ lastEvent = Event("start", r, "none")
    /\ reqs[r].pc = "net"
    /\ reqs[r].auth = "tokB"
    /\ storage.token = Null /\ storage.access_token = Null /\ storage.auth_token = Null

\* the step is the response handling of a getLearningPaths of q that leaves
\* the fetched body in the cache
C27_StoresLearningPaths(q) ==
  /\ lastEvent'.kind = "respond" /\ lastEvent'.req = q
  /\ reqs[q].pc = "net"
  /\ reqs[q].entry = "getLearningPaths"
  /\ LastOutcome(reqs'[q]).ok
  /\ LearningPathsKey(reqs[q].params) \in DOMAIN cache'
  /\ cache'[LearningPathsKey(reqs[q].params)].data = LastOutcome(reqs'[q]).body

(***************************************************************************)
(* C27: for every interleaving of updateUserProfile with in-flight         *)
(* getLearningPaths calls, once updateUserProfile has performed its        *)
(* invalidation the cache never again holds a learning_paths entry whose   *)
(* body was fetched by a request issued before the profile update          *)
(* succeeded: no such request stores its body.                             *)
(***************************************************************************)
C27_NoStaleLearningPathsAfterUpdate ==
  [][\A q \in Reqs : C27_StoresLearningPaths(q) => ~reqs[q].issuedBeforeUpdate]_vars

\* getLearningPaths was in flight when updateUserProfile succeeded and
\* invalidated; its response arrived afterwards and its body is in the cache
C27_Witness ==
  /\ lastEvent = Event("respond", "r1", "none")
  /\ reqs["r1"].entry = "getLearningPaths"
  /\ reqs["r1"].pc = "done" /\ reqs["r1"].outcome = "ok"
  /\ reqs["r1"].issuedBeforeUpdate
  /\ reqs["r2"].entry = "updateUserProfile"
  /\ reqs["r2"].pc = "done" /\ reqs["r2"].outcome = "ok"
  /\ LearningPathsKey(reqs["r1"].params) \in DOMAIN cache

(***************************************************************************)
(* Read specification: the three cached reads, each with one argument,     *)
(* issued by two callers against a transport that answers with one of two  *)
(* bodies or fails.                                                        *)
(***************************************************************************)
ReadCalls ==
  {Call("getLearningPaths", "get", U_learning_paths, "undefined", FALSE),
   Call("getLearningPath", "get", PathUrl("7"), "7", FALSE),
   Call("getModules", "get", ModulesUrl("7"), "7", FALSE)}

ReadOutcomes == {OkOutcome("b1"), OkOutcome("b2"), FailOutcome(HttpError(503))}

NextReads ==
  \/ \E r \in Reqs, c \in ReadCalls : StartCall(r, c)
  \/ \E r \in Reqs, o \in ReadOutcomes : Respond(r, o, "none")
  \/ ClearCache

SpecReads == InitRetry /\ [][NextReads]_vars

\* the call of p was served by the network and stored its body, and the call
\* of q, the same read with the same argument, was served that body from the
\* cache
C26_PopulatedAndServed(p, q) ==
  /\ p.pc = "done" /\ p.outcome = "ok" /\ ~p.fromCache /\ Attempts(p) = 1
  /\ q.pc = "done" /\ q.outcome = "ok" /\ q.fromCache
  /\ p.entry = q.entry /\ p.params = q.params
  /\ IsCachedRead(p.entry)
  /\ p.value.data = q.value.data

(***************************************************************************)
(* C26: for the same arguments, getLearningPaths, getLearningPath and      *)
(* getModules return the same value when the call is served from the cache *)
(* as the network-served call that populated the cache returned.           *)
(***************************************************************************)
C26_CachedReadReturnsWhatNetworkReadReturned ==
  \A p \in Reqs, q \in Reqs :
    C26_PopulatedAndServed(reqs[p], reqs[q]) => reqs[p].value = reqs[q].value

\* getModules('7') fetched body b2 and returned it; the next getModules('7')
\* was served from the cache and returned { success: true, data: b2 }
C26_Witness ==
  /\ C26_PopulatedAndServed(reqs["r1"], reqs["r2"])
  /\ reqs["r1"].entry = "getModules"
  /\ reqs["r1"].value = BodyValue("b2")
  /\ reqs["r2"].value.kind = "cached"
  /\ lastEvent = Event("start", "r2", "none")

(***************************************************************************)
(* Cached-read specification: getLearningPaths against the cache, the      *)
(* clock, the periodic cleanup and clearCache.                             *)
(***************************************************************************)
PathCalls ==
  {Call("getLearningPaths", "get", U_learning_paths, p, FALSE) : p \in {"undefined", "{}"}}

PathOutcomes == {OkOutcome("b1"), OkOutcome(Null), FailOutcome(HttpError(503))}

TickPaths == TickUpTo(MaxPathTicks)

NextPaths ==
  \/ \E r \in Reqs, c \in PathCalls : StartCall(r, c)
  \/ \E r \in Reqs, o \in PathOutcomes : Respond(r, o, "none")
  \/ ClearCache
  \/ Cleanup
  \/ TickPaths

SpecPaths == InitRetry /\ [][NextPaths]_vars

(***************************************************************************)
(* C8: after getLearningPaths(params) has returned a successful response   *)
(* body, every later getLearningPaths call with the same params made       *)
(* within 15 minutes, with no intervening invalidation, is answered from   *)
(* the cache without a network call.                                       *)
(***************************************************************************)
C8_FreshReadIsServedFromCache ==
  \A r \in Reqs :
    (reqs[r].entry = "getLearningPaths" /\ reqs[r].freshAtStart) =>
       /\ reqs[r].pc = "done"
       /\ reqs[r].fromCache
       /\ Attempts(reqs[r]) = 0
       /\ reqs[r].outcome = "ok"

\* a read made exactly 15 minutes after the body was fetched was served from
\* the cache
C8_Witness ==
  \E r \in Reqs :
    /\ lastEvent = Event("start", r, "none")
    /\ reqs[r].entry = "getLearningPaths"
    /\ reqs[r].fromCache
    /\ populated[LearningPathsKey(reqs[r].params)] # -1
    /\ now - populated[LearningPathsKey(reqs[r].params)] = FreshWindow

\* the step is the successful completion of a network call of
\* getLearningPaths by q (q found the cache cold when it was issued)
C28_NetworkCallSucceeds(q) ==
  /\ lastEvent'.kind = "respond" /\ lastEvent'.req = q
  /\ reqs[q].pc = "net"
  /\ reqs[q].entry = "getLearningPaths"
  /\ reqs'[q].outcome = "ok"
  /\ LastOutcome(reqs'[q]).body # Null

(***************************************************************************)
(* C28: for any interleaving of getLearningPaths calls with the same       *)
(* params that all start on a cold cache and succeed within one TTL        *)
(* window, at most one network call is issued for that cache key: when a   *)
(* network call for the key succeeds, no other network call has fetched    *)
(* the key within the window (with no invalidation in between).            *)
(***************************************************************************)
C28_OneNetworkCallPerKey ==
  [][\A q \in Reqs :
       C28_NetworkCallSucceeds(q) => ~FreshlyPopulated(LearningPathsKey(reqs[q].params))]_vars

\* two getLearningPaths() found the cache cold and both went to the network;
\* the first has just succeeded and filled the cache while the second is
\* still in flight for the same key
C28_Witness ==
  /\ lastEvent = Event("respond", "r1", "none")
  /\ reqs["r1"].entry = "getLearningPaths" /\ reqs["r2"].entry = "getLearningPaths"
  /\ reqs["r1"].params = reqs["r2"].params
  /\ reqs["r1"].pc = "done" /\ reqs["r1"].outcome = "ok" /\ ~reqs["r1"].fromCache
  /\ reqs["r2"].pc = "net"
  /\ FreshlyPopulated(LearningPathsKey(reqs["r2"].params))
  /\ LearningPathsKey(reqs["r2"].params) \in DOMAIN cache

(***************************************************************************)
(* Gamification specification: awardPoints calls interleaved with the      *)
(* periodic event-queue processor.                                         *)
(***************************************************************************)
NextGamification ==
  \/ StatisticsLoaded
  \/ AwardPoints
  \/ \E e \in GamificationEvents : AwardSettles(e)
  \/ CheckAndProcess
  \/ \E e \in GamificationEvents : DrainSettles(e)

SpecGamification == InitRetry /\ [][NextGamification]_vars

(***************************************************************************)
(* C29: every event passed to GamificationService.awardPoints is processed *)
(* by processEvent exactly once, under any interleaving of awardPoints     *)
(* calls with the periodic (5 s) event-queue processor, and at most one    *)
(* queue-draining loop is active at any time.                              *)
(***************************************************************************)
C29_EachEventProcessedOnce ==
  /\ \A e \in 1..gamification.awarded : gamification.processed[e] = 1
  /\ Cardinality(gamification.draining) <= 1

\* an event was processed by awardPoints and, left in the queue, a second
\* time by the draining loop, which has ended
C29_Witness ==
  /\ gamification.awarded >= 1
  /\ gamification.processed[1] = 2
  /\ gamification.awarding = {}
  /\ gamification.draining = {}
  /\ ~gamification.isProcessing
  /\ gamification.eventQueue = <<>>

(***************************************************************************)
(* Search-analytics specification: trackSearch and trackResultClick        *)
(* interleaved with the periodic flush and the settling of the flushes.    *)
(***************************************************************************)
NextSearch ==
  \/ TrackSearch
  \/ TrackResultClick
  \/ PeriodicFlush
  \/ \E i \in 1..MaxFlushes, ok \in BOOLEAN : FlushSettles(i, ok)

SpecSearch == InitRetry /\ [][NextSearch]_vars

(***************************************************************************)
(* C30: every analytics event enqueued by SearchService.trackSearch or     *)
(* trackResultClick is included in the payload of some flush before it     *)
(* leaves the queue: no event enqueued while a flush is in flight, or      *)
(* while an earlier flush fails, is discarded without having been sent.    *)
(***************************************************************************)
C30_NoEventLeavesQueueUnsent ==
  \A e \in 1..search.enqueued :
    e \in Range(search.analyticsQueue) \/ e \in search.sent

\* event 2 was tracked while the flush of event 1 was in flight; when that
\* flush settled the queue was emptied and event 2 was in no payload
C30_Witness ==
  /\ search.enqueued = 2
  /\ search.sent = {1}
  /\ search.analyticsQueue = <<>>
  /\ search.flushing = <<>>
  /\ search.lastFlush = "sent"

====
